---- MODULE Spec2Model ----
(***************************************************************************)
(* A model of the edge-finding pipeline of scripts/edge_finder.py and of   *)
(* the edge finder of scripts/dratings.py.                                 *)
(*                                                                         *)
(* Numbers are exact rationals <<n, d>> (d > 0, lowest terms).  Python's   *)
(* None is the pair <<0, 0>> and a ZeroDivisionError is the pair <<1, 0>>. *)
(* Where the code truncates a float with int(), the rounding error of the  *)
(* float expression is an input err \in {-1, 0, 1} (its sign); operations  *)
(* on floats that hold their operands and result exactly have no error.    *)
(***************************************************************************)
EXTENDS Integers, Sequences, FiniteSets, TLC

\* ------------------------------------------------------------------ bounds
\* probabilities are drawn from the grid k / ProbDen
ProbDen == 100
\* American odds are drawn from -MaxOdds .. MaxOdds
MaxOdds == 400
\* a source returns at most MaxGames records
MaxGames == 2
\* a consensus entry counts at most MaxCount values
MaxCount == 4
\* the ranker sorts at most MaxReports reports
MaxReports == 3

\* ------------------------------------------------------- program constants
DefaultBankroll == 1000
PlaceholderAwayOdds == 110
PlaceholderHomeOdds == -110

\* --------------------------------------------------------------- rationals
None == <<0, 0>>
ZeroDivisionError == <<1, 0>>

IsNum(q) == q[2] > 0

Abs(i) == IF i < 0 THEN -i ELSE i

RECURSIVE Gcd(_, _)
Gcd(a, b) == IF b = 0 THEN a ELSE Gcd(b, a % b)

Rat(n, d) ==
    LET g == Gcd(Abs(n), Abs(d))
        s == IF d < 0 THEN -1 ELSE 1
    IN  <<(s * n) \div g, (s * d) \div g>>

Num(i) == <<i, 1>>

RAdd(a, b) == Rat(a[1] * b[2] + b[1] * a[2], a[2] * b[2])
RSub(a, b) == Rat(a[1] * b[2] - b[1] * a[2], a[2] * b[2])
RMul(a, b) == Rat(a[1] * b[1], a[2] * b[2])
RNeg(a) == <<-a[1], a[2]>>
\* Python's / : dividing by zero raises
RDiv(a, b) == IF b[1] = 0 THEN ZeroDivisionError ELSE Rat(a[1] * b[2], a[2] * b[1])
RLe(a, b) == a[1] * b[2] <= b[1] * a[2]
RLt(a, b) == a[1] * b[2] < b[1] * a[2]
RAbs(a) == <<Abs(a[1]), a[2]>>
RMin(a, b) == IF RLt(b, a) THEN b ELSE a
RMax(a, b) == IF RLt(a, b) THEN b ELSE a
\* a value that is falsy in Python: None or 0
Truthy(v) == IsNum(v) /\ v[1] # 0

RECURSIVE IsPow2(_)
IsPow2(n) == n = 1 \/ (n > 1 /\ n % 2 = 0 /\ IsPow2(n \div 2))
\* a number a binary float holds exactly
Dyadic(q) == IsNum(q) /\ IsPow2(q[2])

\* int(x) of a float x whose exact value is q and whose rounding error has
\* sign err: truncation toward zero; an exact integer that the float misses
\* from the side of zero truncates to the next integer toward zero.
Trunc(q, err) ==
    IF q[2] = 1
    THEN IF q[1] > 0 /\ err < 0 THEN q[1] - 1
         ELSE IF q[1] < 0 /\ err > 0 THEN q[1] + 1
         ELSE q[1]
    ELSE IF q[1] >= 0 THEN q[1] \div q[2] ELSE -((-q[1]) \div q[2])

\* ------------------------------------------- edge_finder.py pure functions
odds_to_probability(odds) ==
    IF odds > 0
    THEN RDiv(Num(100), Num(odds + 100))
    ELSE RDiv(Num(Abs(odds)), Num(Abs(odds) + 100))

\* mutant of probability_to_odds: the favourite branch taken at prob >= 0.5
probability_to_odds_ge(prob, err) ==
    IF RLe(Rat(1, 2), prob)
    THEN LET q == RDiv(RNeg(prob), RSub(Num(1), prob))
         IN  IF IsNum(q)
             THEN Num(Trunc(RMul(q, Num(100)),
                            IF Dyadic(prob) /\ Dyadic(q) THEN 0 ELSE err))
             ELSE ZeroDivisionError
    ELSE LET q == RDiv(RSub(Num(1), prob), prob)
         IN  IF IsNum(q)
             THEN Num(Trunc(RMul(q, Num(100)),
                            IF Dyadic(prob) /\ Dyadic(q) THEN 0 ELSE err))
             ELSE ZeroDivisionError

\* the result is an integer Num(i), or ZeroDivisionError
probability_to_odds(prob, err) ==
    IF RLt(Rat(1, 2), prob)
    THEN LET q == RDiv(RNeg(prob), RSub(Num(1), prob))
         IN  IF IsNum(q)
             THEN Num(Trunc(RMul(q, Num(100)),
                            IF Dyadic(prob) /\ Dyadic(q) THEN 0 ELSE err))
             ELSE ZeroDivisionError
    ELSE LET q == RDiv(RSub(Num(1), prob), prob)
         IN  IF IsNum(q)
             THEN Num(Trunc(RMul(q, Num(100)),
                            IF Dyadic(prob) /\ Dyadic(q) THEN 0 ELSE err))
             ELSE ZeroDivisionError

calculate_edge(model_prob, market_prob) ==
    IF RLe(market_prob, Num(0))
    THEN Num(0)
    ELSE RMul(RDiv(RSub(model_prob, market_prob), market_prob), Num(100))

\* mutant of kelly_criterion: the 5% cap is dropped
kelly_criterion_uncapped(edge_prob, market_prob, bankroll) ==
    IF RLe(market_prob, Num(0)) \/ RLe(edge_prob, Num(0))
    THEN Num(0)
    ELSE LET odds == RSub(RDiv(Num(1), market_prob), Num(1))
             edge == RSub(edge_prob, market_prob)
         IN  IF RLe(edge, Num(0))
             THEN Num(0)
             ELSE LET kelly_fraction == RDiv(edge, odds)
                  IN  IF ~IsNum(kelly_fraction)
                      THEN ZeroDivisionError
                      ELSE RMul(bankroll, kelly_fraction)

\* mutant of kelly_criterion: the edge <= 0 guard is dropped
kelly_criterion_unguarded(edge_prob, market_prob, bankroll) ==
    IF RLe(market_prob, Num(0)) \/ RLe(edge_prob, Num(0))
    THEN Num(0)
    ELSE LET odds == RSub(RDiv(Num(1), market_prob), Num(1))
             edge == RSub(edge_prob, market_prob)
             kelly_fraction == RDiv(edge, odds)
         IN  IF ~IsNum(kelly_fraction)
             THEN ZeroDivisionError
             ELSE RMin(RMul(bankroll, kelly_fraction),
                       RMul(bankroll, Rat(5, 100)))

kelly_criterion(edge_prob, market_prob, bankroll) ==
    IF RLe(market_prob, Num(0)) \/ RLe(edge_prob, Num(0))
    THEN Num(0)
    ELSE LET odds == RSub(RDiv(Num(1), market_prob), Num(1))
             edge == RSub(edge_prob, market_prob)
         IN  IF RLe(edge, Num(0))
             THEN Num(0)
             ELSE LET kelly_fraction == RDiv(edge, odds)
                  IN  IF ~IsNum(kelly_fraction)
                      THEN ZeroDivisionError
                      ELSE RMin(RMul(bankroll, kelly_fraction),
                                RMul(bankroll, Rat(5, 100)))

\* ---------------------------------------------- dratings.py pure functions
DRatings_calculate_edge(model_prob, market_prob) ==
    IF market_prob[1] = 0
    THEN Num(0)
    ELSE RMul(RDiv(RSub(model_prob, market_prob), market_prob), Num(100))

\* ----------------------------------------------------------------- strings
\* a string is a sequence of one-character strings
S_UniversityOf == <<"U", "n", "i", "v", "e", "r", "s", "i", "t", "y", " ", "o", "f", " ">>
S_University == <<" ", "U", "n", "i", "v", "e", "r", "s", "i", "t", "y">>
S_State == <<" ", "S", "t", "a", "t", "e">>
S_St == <<" ", "S", "t">>
S_College == <<"C", "o", "l", "l", "e", "g", "e">>
UNC == <<"U", "N", "C">>
NorthCarolina == <<"N", "o", "r", "t", "h", " ", "C", "a", "r", "o", "l", "i", "n", "a">>
Duke == <<"D", "u", "k", "e">>
UCLA == <<"U", "C", "L", "A">>
UConn == <<"U", "C", "o", "n", "n">>
Connecticut == <<"C", "o", "n", "n", "e", "c", "t", "i", "c", "u", "t">>
ASU == <<"A", "S", "U">>
ArizonaState == <<"A", "r", "i", "z", "o", "n", "a", " ", "S", "t", "a", "t", "e">>
DukeUniversity == <<"D", "u", "k", "e", " ", "U", "n", "i", "v", "e", "r", "s", "i", "t", "y">>
S_At == <<" ", "@", " ">>
duke == <<"d", "u", "k", "e">>
unc == <<"u", "n", "c">>
MichiganState == <<"M", "i", "c", "h", "i", "g", "a", "n", " ", "S", "t", "a", "t", "e">>
BostonCollege == <<"B", "o", "s", "t", "o", "n", " ", "C", "o", "l", "l", "e", "g", "e">>
UniversityOfKansas ==
    <<"U", "n", "i", "v", "e", "r", "s", "i", "t", "y", " ", "o", "f", " ", "K", "a", "n", "s", "a", "s">>
PaddedDuke == <<" ", "D", "u", "k", "e", " ">>

StartsWith(s, p) == Len(s) >= Len(p) /\ SubSeq(s, 1, Len(p)) = p

\* str.strip(): leading and trailing blanks removed
RECURSIVE LStrip(_)
LStrip(s) == IF s # <<>> /\ Head(s) = " " THEN LStrip(Tail(s)) ELSE s
RECURSIVE RStrip(_)
RStrip(s) ==
    IF s # <<>> /\ s[Len(s)] = " " THEN RStrip(SubSeq(s, 1, Len(s) - 1)) ELSE s
Strip(s) == RStrip(LStrip(s))

\* str.replace(old, new): every occurrence, left to right, not overlapping
RECURSIVE Replace(_, _, _)
Replace(s, old, new) ==
    IF s = <<>> THEN <<>>
    ELSE IF StartsWith(s, old)
         THEN new \o Replace(SubSeq(s, Len(old) + 1, Len(s)), old, new)
         ELSE <<Head(s)>> \o Replace(Tail(s), old, new)

name_mapping ==
    (UNC :> NorthCarolina) @@ (Duke :> Duke) @@ (UCLA :> UCLA)
        @@ (UConn :> Connecticut) @@ (ASU :> ArizonaState)

normalize_team_names(team_name) ==
    LET n0 == Strip(team_name)
        n1 == Replace(n0, S_UniversityOf, <<>>)
        n2 == Replace(n1, S_University, <<>>)
        n3 == Replace(n2, S_State, S_St)
        name == Replace(n3, S_College, <<>>)
    IN  IF name \in DOMAIN name_mapping THEN name_mapping[name] ELSE name

\* ------------------------------------------------------------------ records
\* a JSON null where a dict is expected
JsonNull == [json |-> "null"]
HasKey(d, k) == k \in DOMAIN d
\* dict.get(key, default)
Get(d, k, default) == IF k \in DOMAIN d THEN d[k] ELSE default
EmptyDict == [k \in {} |-> None]

\* ------------------------------------------------------------ game matcher
AnchorPriority == <<"dratings", "cbbpy", "barttorvik">>

is_same_game(game, target_away, target_home) ==
    IF HasKey(game, "away_team") /\ HasKey(game, "home_team")
    THEN /\ normalize_team_names(game.away_team) = target_away
         /\ normalize_team_names(game.home_team) = target_home
    ELSE FALSE

\* mutant of BaseSource: a source that returned nothing may be the anchor
BaseSource_any_key(predictions) ==
    LET ok == {i \in 1..Len(AnchorPriority) : AnchorPriority[i] \in DOMAIN predictions}
    IN  IF ok = {} THEN ""
        ELSE AnchorPriority[CHOOSE i \in ok : \A j \in ok : i <= j]

\* the anchor: the first source of the priority list that is a key of
\* predictions with a non-empty value; "" stands for None
BaseSource(predictions) ==
    LET ok == {i \in 1..Len(AnchorPriority) :
                  /\ AnchorPriority[i] \in DOMAIN predictions
                  /\ predictions[AnchorPriority[i]] # <<>>}
    IN  IF ok = {} THEN ""
        ELSE AnchorPriority[CHOOSE i \in ok : \A j \in ok : i <= j]

\* the indexes of the records of games that are the target game
SameGameIdx(games, away, home) ==
    {i \in 1..Len(games) : is_same_game(games[i], away, home)}

MatchedGame(predictions, base_source, base_game) ==
    LET away_team == normalize_team_names(base_game.away_team)
        home_team == normalize_team_names(base_game.home_team)
        others == {s \in DOMAIN predictions :
                      /\ s # base_source
                      /\ SameGameIdx(predictions[s], away_team, home_team) # {}}
        first(s) == LET ix == SameGameIdx(predictions[s], away_team, home_team)
                    IN  predictions[s][CHOOSE i \in ix : \A j \in ix : i <= j]
    IN  [away_team |-> away_team,
         home_team |-> home_team,
         date |-> Get(base_game, "date", ""),
         predictions |-> [s \in others \cup {base_source} |->
                             IF s = base_source THEN base_game ELSE first(s)],
         consensus |-> EmptyDict]

RECURSIVE MatchLoop(_, _, _)
MatchLoop(predictions, base_source, games) ==
    IF games = <<>> THEN <<>>
    ELSE LET base_game == Head(games)
             rest == MatchLoop(predictions, base_source, Tail(games))
         IN  IF HasKey(base_game, "away_team") /\ HasKey(base_game, "home_team")
             THEN <<MatchedGame(predictions, base_source, base_game)>> \o rest
             ELSE rest

\* mutant of match_games_across_sources: the records of cbbpy seed matched
\* games of their own when another source is the anchor
match_games_seed_cbbpy(predictions) ==
    LET base_source == BaseSource(predictions)
    IN  IF base_source = "" THEN <<>>
        ELSE MatchLoop(predictions, base_source, predictions[base_source])
                \o (IF base_source # "cbbpy" /\ "cbbpy" \in DOMAIN predictions
                    THEN MatchLoop(predictions, "cbbpy", predictions["cbbpy"])
                    ELSE <<>>)

match_games_across_sources(predictions) ==
    LET base_source == BaseSource(predictions)
    IN  IF base_source = "" THEN <<>>
        ELSE MatchLoop(predictions, base_source, predictions[base_source])

\* ------------------------------------------------------ consensus aggregator
RECURSIVE IsqrtIn(_, _, _)
IsqrtIn(x, lo, hi) ==
    IF lo >= hi THEN lo
    ELSE LET mid == (lo + hi + 1) \div 2
         IN  IF mid * mid <= x THEN IsqrtIn(x, mid, hi) ELSE IsqrtIn(x, lo, mid - 1)
\* the square root of a rational >= 0: exact when it is rational, and
\* otherwise cut to a multiple of 1/denominator
RSqrt(q) == Rat(IsqrtIn(q[1] * q[2], 0, 46340), q[2])

RECURSIVE SumOver(_, _)
SumOver(S, f) ==
    IF S = {} THEN Num(0)
    ELSE LET x == CHOOSE y \in S : TRUE
         IN  RAdd(f[x], SumOver(S \ {x}, f))

\* np.mean and np.std (population) of the values f[x], x \in S, S # {}
Mean(S, f) == RDiv(SumOver(S, f), Num(Cardinality(S)))
Std(S, f) ==
    LET m == Mean(S, f)
        sq == [x \in S |-> RMul(RSub(f[x], m), RSub(f[x], m))]
    IN  RSqrt(Mean(S, sq))

MetricKey ==
    [away_win_prob |-> "model_win_prob_away", home_win_prob |-> "model_win_prob_home",
     spread |-> "predicted_spread", total |-> "predicted_total"]

\* the sources of the game whose record carries a 'predictions' entry
WithPredictions(matched_game) ==
    {s \in DOMAIN matched_game.predictions :
        HasKey(matched_game.predictions[s], "predictions")}

\* 'key in pred_data' raises TypeError when pred_data is a JSON null
ConsensusRaises(matched_game) ==
    \E s \in WithPredictions(matched_game) :
        matched_game.predictions[s].predictions = JsonNull

\* the sources whose value for the metric is appended to consensus[key]
Contributors(matched_game, key) ==
    {s \in WithPredictions(matched_game) :
        LET pred_data == matched_game.predictions[s].predictions
        IN  /\ HasKey(pred_data, MetricKey[key])
            /\ Truthy(pred_data[MetricKey[key]])}

\* mutant of calculate_consensus_prediction: a metric without values is
\* reported with mean 0 and count 0
calculate_consensus_prediction_all_keys(matched_game) ==
    LET value(key) == [s \in Contributors(matched_game, key) |->
                          matched_game.predictions[s].predictions[MetricKey[key]]]
    IN  [key \in DOMAIN MetricKey |->
            LET S == Contributors(matched_game, key)
            IN  [avg |-> IF S = {} THEN Num(0) ELSE Mean(S, value(key)),
                 std |-> IF Cardinality(S) > 1 THEN Std(S, value(key)) ELSE Num(0),
                 count |-> Cardinality(S)]]

\* the result dict: entry key stands for avg_key, std_key and count_key
calculate_consensus_prediction(matched_game) ==
    LET present == {key \in DOMAIN MetricKey : Contributors(matched_game, key) # {}}
        value(key) == [s \in Contributors(matched_game, key) |->
                          matched_game.predictions[s].predictions[MetricKey[key]]]
    IN  [key \in present |->
            LET S == Contributors(matched_game, key)
            IN  [avg |-> Mean(S, value(key)),
                 std |-> IF Cardinality(S) > 1 THEN Std(S, value(key)) ELSE Num(0),
                 count |-> Cardinality(S)]]

\* ------------------------------------------------------------ edge evaluator
\* mutant of calculate_confidence: the source score does not saturate at 1
calculate_confidence_unsaturated(consensus, metric_type) ==
    LET source_count == IF HasKey(consensus, metric_type)
                        THEN consensus[metric_type].count ELSE 0
        std_dev == IF HasKey(consensus, metric_type)
                   THEN consensus[metric_type].std ELSE Num(0)
    IN  IF source_count = 0 THEN Num(0)
        ELSE LET source_score == Rat(source_count, 3)
                 agreement_score == RMax(Num(0), RSub(Num(1), RMul(std_dev, Num(4))))
             IN  RMul(RAdd(RMul(source_score, Rat(6, 10)),
                           RMul(agreement_score, Rat(4, 10))), Num(100))

calculate_confidence(consensus, metric_type) ==
    LET source_count == IF HasKey(consensus, metric_type)
                        THEN consensus[metric_type].count ELSE 0
        std_dev == IF HasKey(consensus, metric_type)
                   THEN consensus[metric_type].std ELSE Num(0)
    IN  IF source_count = 0 THEN Num(0)
        ELSE LET source_score == RMin(Rat(source_count, 3), Num(1))
                 agreement_score == RMax(Num(0), RSub(Num(1), RMul(std_dev, Num(4))))
             IN  RMul(RAdd(RMul(source_score, Rat(6, 10)),
                           RMul(agreement_score, Rat(4, 10))), Num(100))

placeholder_market ==
    [away_ml_odds |-> PlaceholderAwayOdds, home_ml_odds |-> PlaceholderHomeOdds]

\* mutant of SideEdges: an edge of exactly 0 is recommended
SideEdges_recommends_zero(game, consensus, min_edge, side) ==
    LET key == IF side = "away" THEN "away_win_prob" ELSE "home_win_prob"
        odds == IF side = "away" THEN placeholder_market.away_ml_odds
                ELSE placeholder_market.home_ml_odds
    IN  IF ~HasKey(consensus, key) THEN <<>>
        ELSE LET model_prob == consensus[key].avg
                 market_prob == odds_to_probability(odds)
                 edge == calculate_edge(model_prob, market_prob)
             IN  IF RLe(min_edge, RAbs(edge))
                 THEN <<[type |-> "moneyline",
                         team |-> IF side = "away" THEN game.away_team
                                  ELSE game.home_team,
                         side |-> side,
                         model_prob |-> model_prob,
                         market_prob |-> market_prob,
                         edge_percent |-> edge,
                         kelly_bet_amount |->
                             kelly_criterion(model_prob, market_prob,
                                             Num(DefaultBankroll)),
                         confidence |-> calculate_confidence(consensus, key),
                         recommended |-> RLe(Num(0), edge)]>>
                 ELSE <<>>

\* one moneyline side of identify_game_edges: the Edge records it appends
SideEdges(game, consensus, min_edge, side) ==
    LET key == IF side = "away" THEN "away_win_prob" ELSE "home_win_prob"
        odds == IF side = "away" THEN placeholder_market.away_ml_odds
                ELSE placeholder_market.home_ml_odds
    IN  IF ~HasKey(consensus, key) THEN <<>>
        ELSE LET model_prob == consensus[key].avg
                 market_prob == odds_to_probability(odds)
                 edge == calculate_edge(model_prob, market_prob)
             IN  IF RLe(min_edge, RAbs(edge))
                 THEN <<[type |-> "moneyline",
                         team |-> IF side = "away" THEN game.away_team
                                  ELSE game.home_team,
                         side |-> side,
                         model_prob |-> model_prob,
                         market_prob |-> market_prob,
                         edge_percent |-> edge,
                         kelly_bet_amount |->
                             kelly_criterion(model_prob, market_prob,
                                             Num(DefaultBankroll)),
                         confidence |-> calculate_confidence(consensus, key),
                         recommended |-> RLt(Num(0), edge)]>>
                 ELSE <<>>

identify_game_edges(game, consensus, min_edge) ==
    SideEdges(game, consensus, min_edge, "away")
        \o SideEdges(game, consensus, min_edge, "home")

\* -------------------------------------------------------------- edge ranker
RECURSIVE MaxEdgePercent(_)
MaxEdgePercent(edges) ==
    IF Len(edges) = 1 THEN edges[1].edge_percent
    ELSE RMax(edges[1].edge_percent, MaxEdgePercent(Tail(edges)))

\* mutant of KeyLt: the sort key is max_edge alone
KeyLt_max_edge_only(a, b) == RLt(a.max_edge, b.max_edge)

\* the sort key (max_edge, sources_count), compared as Python compares tuples
KeyLt(a, b) ==
    \/ RLt(a.max_edge, b.max_edge)
    \/ a.max_edge = b.max_edge /\ a.sources_count < b.sources_count

\* mutant of InsertDesc: an element goes before the elements of equal key
RECURSIVE InsertDesc_before_equals(_, _)
InsertDesc_before_equals(x, s) ==
    IF s = <<>> THEN <<x>>
    ELSE IF ~KeyLt(x, Head(s)) THEN <<x>> \o s
         ELSE <<Head(s)>> \o InsertDesc_before_equals(x, Tail(s))

\* list.sort(key, reverse=True): descending, equal keys keep their order
RECURSIVE InsertDesc(_, _)
InsertDesc(x, s) ==
    IF s = <<>> THEN <<x>>
    ELSE IF KeyLt(Head(s), x) THEN <<x>> \o s
         ELSE <<Head(s)>> \o InsertDesc(x, Tail(s))
RECURSIVE SortDesc(_, _)
SortDesc(acc, s) ==
    IF s = <<>> THEN acc ELSE SortDesc(InsertDesc(Head(s), acc), Tail(s))

\* ------------------------------------------------------ find_edges, the loop
\* mutant of EdgeGame: the anchor source is not counted
EdgeGame_without_anchor(game, min_edge) ==
    LET consensus == calculate_consensus_prediction(game)
        game_edges == identify_game_edges(game, consensus, min_edge)
    IN  IF game_edges = <<>> THEN <<>>
        ELSE <<[game |-> game.away_team \o S_At \o game.home_team,
                date |-> game.date,
                consensus |-> consensus,
                edges |-> game_edges,
                max_edge |-> MaxEdgePercent(game_edges),
                sources_count |-> Cardinality(DOMAIN game.predictions) - 1]>>

EdgeGame(game, min_edge) ==
    LET consensus == calculate_consensus_prediction(game)
        game_edges == identify_game_edges(game, consensus, min_edge)
    IN  IF game_edges = <<>> THEN <<>>
        ELSE <<[game |-> game.away_team \o S_At \o game.home_team,
                date |-> game.date,
                consensus |-> consensus,
                edges |-> game_edges,
                max_edge |-> MaxEdgePercent(game_edges),
                sources_count |-> Cardinality(DOMAIN game.predictions)]>>

RECURSIVE EdgeGames(_, _)
EdgeGames(matched_games, min_edge) ==
    IF matched_games = <<>> THEN <<>>
    ELSE EdgeGame(Head(matched_games), min_edge)
            \o EdgeGames(Tail(matched_games), min_edge)

\* the try block of find_edges after the fetch: [raised, value]; the
\* TypeError of calculate_consensus_prediction for any game leaves the loop
FindEdgesTry(predictions, min_edge) ==
    LET matched_games == match_games_across_sources(predictions)
    IN  IF \E i \in 1..Len(matched_games) : ConsensusRaises(matched_games[i])
        THEN [raised |-> TRUE, value |-> <<>>]
        ELSE [raised |-> FALSE,
              value |-> SortDesc(<<>>, EdgeGames(matched_games, min_edge))]

\* find_edges with its handler: except Exception returns []
find_edges(predictions, min_edge) ==
    LET t == FindEdgesTry(predictions, min_edge)
    IN  IF t.raised THEN [raised |-> FALSE, value |-> <<>>] ELSE t

\* -------------------------------------------------- dratings.py find_edges
\* mutant of DRatings_SideEdges: odds of 0 count as odds
DRatings_SideEdges_any_odds(game, min_edge, side) ==
    LET model_prob == Get(game.predictions,
                          IF side = "away" THEN "model_win_prob_away"
                          ELSE "model_win_prob_home", None)
        ml_odds == Get(game.market_data,
                       IF side = "away" THEN "away_ml_odds" ELSE "home_ml_odds", None)
    IN  IF Truthy(model_prob) /\ IsNum(ml_odds)
        THEN LET market_prob == odds_to_probability(ml_odds[1])
                 edge == DRatings_calculate_edge(model_prob, market_prob)
             IN  IF RLe(min_edge, RAbs(edge))
                 THEN <<[type |-> "moneyline",
                         team |-> IF side = "away" THEN game.away_team
                                  ELSE game.home_team,
                         side |-> side,
                         model_prob |-> model_prob,
                         market_prob |-> market_prob,
                         edge_percent |-> edge,
                         recommended_bet |-> IF RLt(Num(0), edge) THEN "YES" ELSE "NO"]>>
                 ELSE <<>>
        ELSE <<>>

\* one moneyline side of DRatingsAnalyzer.find_edges
DRatings_SideEdges(game, min_edge, side) ==
    LET model_prob == Get(game.predictions,
                          IF side = "away" THEN "model_win_prob_away"
                          ELSE "model_win_prob_home", None)
        ml_odds == Get(game.market_data,
                       IF side = "away" THEN "away_ml_odds" ELSE "home_ml_odds", None)
    IN  IF Truthy(model_prob) /\ Truthy(ml_odds)
        THEN LET market_prob == odds_to_probability(ml_odds[1])
                 edge == DRatings_calculate_edge(model_prob, market_prob)
             IN  IF RLe(min_edge, RAbs(edge))
                 THEN <<[type |-> "moneyline",
                         team |-> IF side = "away" THEN game.away_team
                                  ELSE game.home_team,
                         side |-> side,
                         model_prob |-> model_prob,
                         market_prob |-> market_prob,
                         edge_percent |-> edge,
                         recommended_bet |-> IF RLt(Num(0), edge) THEN "YES" ELSE "NO"]>>
                 ELSE <<>>
        ELSE <<>>

RECURSIVE MaxAbsEdgePercent(_)
MaxAbsEdgePercent(edges) ==
    IF Len(edges) = 1 THEN RAbs(edges[1].edge_percent)
    ELSE RMax(RAbs(edges[1].edge_percent), MaxAbsEdgePercent(Tail(edges)))

DRatings_EdgeGame(game, min_edge) ==
    LET game_edges == DRatings_SideEdges(game, min_edge, "away")
                         \o DRatings_SideEdges(game, min_edge, "home")
    IN  IF game_edges = <<>> THEN <<>>
        ELSE <<[game |-> game.away_team \o S_At \o game.home_team,
                date |-> game.date,
                edges |-> game_edges,
                max_edge |-> MaxAbsEdgePercent(game_edges)]>>

RECURSIVE DRatings_EdgeGames(_, _)
DRatings_EdgeGames(predictions, min_edge) ==
    IF predictions = <<>> THEN <<>>
    ELSE DRatings_EdgeGame(Head(predictions), min_edge)
            \o DRatings_EdgeGames(Tail(predictions), min_edge)

\* edges.sort(key=max_edge, reverse=True)
RECURSIVE DRatings_InsertDesc(_, _)
DRatings_InsertDesc(x, s) ==
    IF s = <<>> THEN <<x>>
    ELSE IF RLt(Head(s).max_edge, x.max_edge) THEN <<x>> \o s
         ELSE <<Head(s)>> \o DRatings_InsertDesc(x, Tail(s))
RECURSIVE DRatings_SortDesc(_, _)
DRatings_SortDesc(acc, s) ==
    IF s = <<>> THEN acc
    ELSE DRatings_SortDesc(DRatings_InsertDesc(Head(s), acc), Tail(s))

DRatings_find_edges(predictions, min_edge) ==
    DRatings_SortDesc(<<>>, DRatings_EdgeGames(predictions, min_edge))

\* --------------------------------------------------------------- run_script
\* mutant of run_script: the return code is not looked at
run_script_ignores_returncode(outcome) ==
    IF outcome.kind \in {"ok", "exit"} THEN outcome.stdout ELSE <<>>

\* what a run of a source script does: kind is "ok" (exit 0, stdout is the
\* JSON of a list), "exit" (non-zero exit), "badjson" (stdout does not
\* parse), "timeout", or "error" (any other exception); stdout is what a
\* parse of the output would give
run_script(outcome) ==
    IF outcome.kind = "ok" THEN outcome.stdout ELSE <<>>

available_sources == <<"barttorvik", "dratings", "kenpom", "haslametrics", "massey">>
ScriptSources == {"barttorvik", "dratings", "cbbpy"}

\* ------------------------------------------------- backtest, the calendar
DigitChar == <<"0", "1", "2", "3", "4", "5", "6", "7", "8", "9">>
IsDigit(c) == \E n \in 1..Len(DigitChar) : DigitChar[n] = c
DigitOf(c) == (CHOOSE n \in 1..Len(DigitChar) : DigitChar[n] = c) - 1

\* int() of a string of digits
RECURSIVE ToNumber(_)
ToNumber(s) ==
    IF s = <<>> THEN 0
    ELSE 10 * ToNumber(SubSeq(s, 1, Len(s) - 1)) + DigitOf(s[Len(s)])

\* the fields of a date string between its dashes; cur is the field read
\* so far
RECURSIVE Fields(_, _)
Fields(s, cur) ==
    IF s = <<>> THEN <<cur>>
    ELSE IF Head(s) = "-" THEN <<cur>> \o Fields(Tail(s), <<>>)
    ELSE Fields(Tail(s), Append(cur, Head(s)))

IsLeap(y) == (y % 4 = 0 /\ y % 100 # 0) \/ y % 400 = 0
DaysInMonth(y, m) ==
    IF m = 2 THEN (IF IsLeap(y) THEN 29 ELSE 28)
    ELSE IF m \in {4, 6, 9, 11} THEN 30 ELSE 31

\* datetime.strptime(s, '%Y-%m-%d'): a year of four digits, a month and a
\* day of one or two digits, a date of the calendar; ValueError otherwise.
\* A datetime at midnight is <<year, month, day>>.
strptime(s) ==
    LET f == Fields(s, <<>>)
        shaped == /\ Len(f) = 3
                  /\ Len(f[1]) = 4 /\ Len(f[2]) \in 1..2 /\ Len(f[3]) \in 1..2
                  /\ \A i \in 1..3 : \A j \in 1..Len(f[i]) : IsDigit(f[i][j])
    IN  IF ~shaped THEN [raised |-> TRUE, value |-> <<1, 1, 1>>]
        ELSE LET y == ToNumber(f[1])
                 m == ToNumber(f[2])
                 d == ToNumber(f[3])
             IN  IF y >= 1 /\ m \in 1..12 /\ d \in 1..DaysInMonth(y, m)
                 THEN [raised |-> FALSE, value |-> <<y, m, d>>]
                 ELSE [raised |-> TRUE, value |-> <<1, 1, 1>>]

\* zero-padded decimal of n in w digits
RECURSIVE Padded(_, _)
Padded(n, w) ==
    IF w = 0 THEN <<>> ELSE Append(Padded(n \div 10, w - 1), DigitChar[(n % 10) + 1])

\* current.strftime('%Y-%m-%d')
strftime(date) ==
    Padded(date[1], 4) \o <<"-">> \o Padded(date[2], 2) \o <<"-">> \o Padded(date[3], 2)

\* current + timedelta(days=1): OverflowError after datetime.max
plus_one_day(date) ==
    LET y == date[1]
        m == date[2]
        d == date[3]
    IN  IF d < DaysInMonth(y, m) THEN [raised |-> FALSE, value |-> <<y, m, d + 1>>]
        ELSE IF m < 12 THEN [raised |-> FALSE, value |-> <<y, m + 1, 1>>]
        ELSE IF y < 9999 THEN [raised |-> FALSE, value |-> <<y + 1, 1, 1>>]
        ELSE [raised |-> TRUE, value |-> date]

\* mutant of DateLe: the loop stops before the end date
DateLe_strict(a, b) ==
    \/ a[1] < b[1]
    \/ a[1] = b[1] /\ a[2] < b[2]
    \/ a[1] = b[1] /\ a[2] = b[2] /\ a[3] < b[3]

\* current <= end of two datetimes
DateLe(a, b) ==
    \/ a[1] < b[1]
    \/ a[1] = b[1] /\ a[2] < b[2]
    \/ a[1] = b[1] /\ a[2] = b[2] /\ a[3] <= b[3]

\* max((edge['max_edge'] for edge in daily_edges), default=0)
RECURSIVE MaxOfMaxEdge(_)
MaxOfMaxEdge(daily_edges) ==
    IF daily_edges = <<>> THEN Num(0)
    ELSE IF Len(daily_edges) = 1 THEN daily_edges[1].max_edge
    ELSE RMax(daily_edges[1].max_edge, MaxOfMaxEdge(Tail(daily_edges)))

\* ------------------------------------------------------------------ state
VARIABLES
    call,        \* the last direct call of a function: [fn, args, out]
    pc,          \* main: "main", "fetching" (inside find_edges), "returned", "cancelled"
    sources,     \* find_edges: the source list after defaults
    min_edge,    \* find_edges: the threshold
    fetched,     \* the outcome of the script run of each source fetched so far
    predictions, \* get_multi_source_predictions: source -> data
    result,      \* the value find_edges returned
    output,      \* what main printed, and its exit status
    stuck,       \* the source scripts that never respond during this run
    bt           \* backtest: its position, arguments, locals and return value

vars == <<call, pc, sources, min_edge, fetched, predictions, result, output, stuck, bt>>
pipeVars == <<pc, sources, min_edge, fetched, predictions, result, output, stuck, bt>>

\* ------------------------------------------------------------------ inputs
ProbGrid == {Rat(k, ProbDen) : k \in -(ProbDen \div 10) .. (ProbDen + ProbDen \div 10)}
Bankrolls == {Num(0), Num(1), Num(DefaultBankroll)}
OddsRange == -MaxOdds .. MaxOdds
FpErr == {-1, 0, 1}
MinEdges == {Num(0), Num(2), Num(5)}

Date1 == "2026-03-15"
Date2 == "2026-03-16"
Preds(a, h, sp, t) ==
    [model_win_prob_away |-> a, model_win_prob_home |-> h,
     predicted_spread |-> sp, predicted_total |-> t]
NoMarket == [market_spread |-> None, market_total |-> None]
Market(a, h) ==
    [market_spread |-> None, market_total |-> None,
     away_ml_odds |-> a, home_ml_odds |-> h]
GameRecord(away, home, preds, market) ==
    [date |-> Date1, away_team |-> away, home_team |-> home,
     predictions |-> preds, market_data |-> market]

\* the records a game source may return: dratings.py's records carry
\* predictions and market_data, cbbpy_tools.py's may carry neither
GameRecords(source) ==
    { GameRecord(Duke, UNC, Preds(Rat(3, 5), Rat(2, 5), None, None), NoMarket),
      GameRecord(DukeUniversity, NorthCarolina,
                 Preds(Rat(49, 100), Rat(11, 20), Rat(-5, 2), Num(145)),
                 Market(None, None)),
      GameRecord(UCLA, UConn, JsonNull, NoMarket),
      IF source = "dratings"
      THEN GameRecord(UCLA, UConn, Preds(Num(0), Num(1), None, None),
                      Market(Num(150), Num(-170)))
      ELSE [date |-> Date1, home_team |-> UNC, away_team |-> Duke] }
\* the rows barttorvik's rankings command returns
RankRows == {[rank |-> 1, team |-> Duke]}

\* what a script that exits non-zero had printed
ExitStdout(source) ==
    IF source = "barttorvik" THEN [rank |-> 1, team |-> Duke]
    ELSE GameRecord(Duke, UNC, Preds(Rat(3, 5), Rat(2, 5), None, None), NoMarket)

RECURSIVE SeqsUpTo(_, _)
SeqsUpTo(S, n) ==
    IF n = 0 THEN {<<>>}
    ELSE LET shorter == SeqsUpTo(S, n - 1)
         IN  shorter \cup {Append(q, x) : q \in shorter, x \in S}

Outcomes(source) ==
    LET rows == IF source = "barttorvik" THEN RankRows ELSE GameRecords(source)
    IN  {[kind |-> "ok", stdout |-> q] : q \in SeqsUpTo(rows, MaxGames)}
        \cup {[kind |-> "exit", stdout |-> <<ExitStdout(source)>>]}
        \cup {[kind |-> k, stdout |-> <<>>] : k \in {"badjson", "timeout", "error"}}

\* mutant of subprocess_run: no timeout, a script that never responds is
\* waited for without end
subprocess_run_no_timeout(source, never) ==
    IF source \in never THEN {} ELSE Outcomes(source)

\* subprocess.run(cmd, capture_output=True, text=True, timeout=60): the ways
\* the call can end; a script that never responds is killed after 60 s and
\* the call ends in TimeoutExpired
subprocess_run(source, never) ==
    IF source \in never THEN {[kind |-> "timeout", stdout |-> <<>>]}
    ELSE Outcomes(source)

\* the sources argument of find_edges; <<>> stands for None
SourceArgs == {<<>>, <<"all">>, <<"cbbpy", "barttorvik">>}

\* the records DRatingsAnalyzer.get_predictions may return
DRatingsRecords ==
    { GameRecord(Duke, UNC, Preds(a, h, None, None), m) :
        a \in {None, Num(0), Rat(49, 100), Rat(3, 5)},
        h \in {None, Rat(11, 20)},
        m \in {NoMarket, Market(Num(0), Num(-110)), Market(Num(110), Num(-110))} }

\* the records of one game as the sources may spell and date them (the
\* game_dict of cbbpy_tools.py: no predictions)
Spelled(date, away, home) == [date |-> date, away_team |-> away, home_team |-> home]
SpelledRecords ==
    {Spelled(d, a, h) : d \in {Date1, Date2},
                        a \in {Duke, duke, DukeUniversity},
                        h \in {UNC, unc, NorthCarolina}}
        \cup {Spelled(Date1, UCLA, UConn)}
\* what the anchor source lists
AnchorLists ==
    {<<Spelled(Date1, Duke, UNC)>>,
     <<Spelled(Date1, DukeUniversity, NorthCarolina)>>,
     <<Spelled(Date1, UCLA, UConn), Spelled(Date1, Duke, UNC)>>}

\* raw team names: the alias table's keys and values, names with filler
\* substrings, with blanks around them, in another case
RawNames ==
    DOMAIN name_mapping \cup {name_mapping[k] : k \in DOMAIN name_mapping}
        \cup {DukeUniversity, UniversityOfKansas, BostonCollege, MichiganState,
              PaddedDuke, duke, unc}

\* the per-source records of one matched game: predictions with values
\* that are null, 0 or another number, predictions without keys, or no
\* predictions at all
SourcePreds ==
    {Preds(a, h, sp, t) : a \in {None, Num(0), Rat(3, 5)}, h \in {None, Rat(2, 5)},
                          sp \in {None, Num(0), Rat(-5, 2)}, t \in {None, Num(145)}}
        \cup {EmptyDict}
SourceRecords ==
    {GameRecord(Duke, UNC, p, NoMarket) : p \in SourcePreds}
        \cup {Spelled(Date1, Duke, UNC)}
MatchedGames ==
    {[away_team |-> Duke, home_team |-> NorthCarolina, date |-> Date1,
      predictions |-> f, consensus |-> EmptyDict] :
        f \in [{"dratings"} -> SourceRecords] \cup [{"dratings", "cbbpy"} -> SourceRecords]}

\* the consensus dicts calculate_confidence is called with: an entry for
\* the away win probability with a count and a standard deviation, or none
Consensuses ==
    {[away_win_prob |-> [avg |-> Rat(1, 2), std |-> Rat(k, ProbDen), count |-> n]] :
        k \in 0..ProbDen, n \in 0..MaxCount}
        \cup {EmptyDict}

\* the records find_edges works on: two games, each side's model
\* probability absent, below or above what the placeholder odds imply
EdgeRecords ==
    {GameRecord(g[1], g[2], Preds(a, h, None, None), NoMarket) :
        g \in {<<Duke, UNC>>, <<UCLA, UConn>>},
        a \in {None, Rat(2, 5), Rat(3, 5)}, h \in {None, Rat(2, 5)}}
EdgePredictions ==
    {[dratings |-> q, cbbpy |-> c] :
        q \in SeqsUpTo(EdgeRecords, MaxGames),
        c \in {<<>>,
               <<GameRecord(Duke, UNC, Preds(Rat(2, 5), None, None, None), NoMarket)>>,
               <<GameRecord(UCLA, UConn, Preds(None, Rat(3, 5), None, None), NoMarket)>>}}

\* the edge_game dicts the ranker sorts, as far as the sort key reads them
RankedReports ==
    {[max_edge |-> Num(e), sources_count |-> n] : e \in {4, 9}, n \in {2, 4, 5}}

\* the consensus dicts identify_game_edges is called with: for each side no
\* entry, or a mean probability k/21 (the placeholder odds +110 and -110
\* imply 10/21 and 11/21)
SideConsensus(key) ==
    {EmptyDict}
        \cup {(key :> [avg |-> Rat(k, 21), std |-> Num(0), count |-> 1]) : k \in 0..22}
GameConsensuses ==
    {a @@ h : a \in SideConsensus("away_win_prob"), h \in SideConsensus("home_win_prob")}
DukeAtUNC ==
    [away_team |-> Duke, home_team |-> NorthCarolina, date |-> Date1,
     predictions |-> [dratings |-> Spelled(Date1, Duke, UNC)], consensus |-> EmptyDict]

\* the predictions dict with any sources as keys: each source has no
\* record, one game, another game, or the first game twice under two
\* spellings
SourceLists ==
    {<<>>,
     <<Spelled(Date1, Duke, UNC)>>,
     <<Spelled(Date1, UCLA, UConn)>>,
     <<Spelled(Date1, Duke, UNC), Spelled(Date1, DukeUniversity, NorthCarolina)>>}
SourceNames == {"dratings", "cbbpy", "barttorvik", "kenpom"}
AnyPredictions ==
    UNION {[names -> SourceLists] : names \in SUBSET SourceNames \ {{}}}

\* the dates given to backtest: a window of MaxSpan + 1 days over the end
\* of February of a leap year
MaxSpan == 3
WindowStart == <<2028, 2, 27>>
RECURSIVE DaysAfter(_, _)
DaysAfter(date, k) ==
    IF k = 0 THEN date ELSE DaysAfter(plus_one_day(date).value, k - 1)
Window == {DaysAfter(WindowStart, k) : k \in 0..MaxSpan}
DatetimeMax == <<9999, 12, 31>>
S_Today == <<"t", "o", "d", "a", "y">>
S_Unpadded == <<"2", "0", "2", "8", "-", "3", "-", "1">>
S_February30 == <<"2", "0", "2", "8", "-", "0", "2", "-", "3", "0">>
S_To == <<" ", "t", "o", " ">>
DateStrings ==
    {strftime(d) : d \in Window} \cup {S_Unpadded, S_Today, S_February30}
\* the arguments start_date and end_date; end_date may be None
BacktestArgs ==
    {[start_date |-> a, end_given |-> TRUE, end_date |-> b] :
        a \in DateStrings, b \in DateStrings}
    \cup {[start_date |-> a, end_given |-> FALSE, end_date |-> <<>>] :
            a \in DateStrings}
    \cup {[start_date |-> strftime(DatetimeMax), end_given |-> TRUE,
           end_date |-> strftime(DatetimeMax)]}
\* what the sources return for one day: nothing, one game with an edge, two
\* games with an edge
BacktestFetches ==
    {[dratings |-> <<>>, cbbpy |-> <<>>],
     [dratings |-> <<GameRecord(Duke, UNC, Preds(Rat(3, 5), Rat(2, 5), None, None),
                                NoMarket)>>,
      cbbpy |-> <<>>],
     [dratings |-> <<GameRecord(Duke, UNC, Preds(Rat(3, 5), Rat(2, 5), None, None),
                                NoMarket),
                     GameRecord(UCLA, UConn, Preds(Rat(2, 5), Rat(3, 5), None, None),
                                NoMarket)>>,
      cbbpy |-> <<>>]}

\* -------------------------------------------------------------------- init
Idle == [fn |-> "idle", args |-> <<>>, out |-> <<None>>]
NoResult == [raised |-> FALSE, value |-> <<>>]
NoOutput == [printed |-> FALSE, data |-> <<>>, exit |-> 0]
NoBacktest ==
    [pc |-> "idle", start_date |-> <<>>, end_date |-> <<>>,
     current |-> <<1, 1, 1>>, end |-> <<1, 1, 1>>,
     results |-> [period |-> <<>>, total_edges_found |-> 0, profitable_edges |-> 0,
                  total_roi |-> Num(0), daily_results |-> <<>>],
     returned |-> "nothing"]

Init ==
    /\ call = Idle
    /\ pc = "main"
    /\ sources = <<>>
    /\ min_edge = Num(2)
    /\ fetched = <<>>
    /\ predictions = EmptyDict
    /\ result = NoResult
    /\ output = NoOutput
    /\ stuck = {}
    /\ bt = NoBacktest

\* ----------------------------------------------- direct calls of functions
CallKelly ==
    /\ call.fn = "idle"
    /\ \E p \in ProbGrid, m \in ProbGrid, b \in Bankrolls :
          call' = [fn |-> "kelly_criterion", args |-> <<p, m, b>>,
                   out |-> <<kelly_criterion(p, m, b)>>]
    /\ UNCHANGED pipeVars

CallEdge ==
    /\ call.fn = "idle"
    /\ \E p \in ProbGrid, m \in ProbGrid :
          call' = [fn |-> "calculate_edge", args |-> <<p, m>>,
                   out |-> <<calculate_edge(p, m)>>]
    /\ UNCHANGED pipeVars

CallDRatingsEdge ==
    /\ call.fn = "idle"
    /\ \E p \in ProbGrid, m \in ProbGrid :
          call' = [fn |-> "DRatings.calculate_edge", args |-> <<p, m>>,
                   out |-> <<DRatings_calculate_edge(p, m)>>]
    /\ UNCHANGED pipeVars

\* probability_to_odds(odds_to_probability(o)); args: <<o, err>>
CallRoundTrip ==
    /\ call.fn = "idle"
    /\ \E o \in OddsRange, err \in FpErr :
          call' = [fn |-> "round_trip", args |-> <<Num(o), Num(err)>>,
                   out |-> <<probability_to_odds(odds_to_probability(o), err)>>]
    /\ UNCHANGED pipeVars

\* DRatingsAnalyzer.find_edges over what get_predictions returned
CallDRatingsFindEdges ==
    /\ call.fn = "idle"
    /\ \E games \in SeqsUpTo(DRatingsRecords, MaxGames), me \in MinEdges :
          call' = [fn |-> "DRatings.find_edges", args |-> <<games, me>>,
                   out |-> <<DRatings_find_edges(games, me)>>]
    /\ UNCHANGED pipeVars

\* match_games_across_sources over what dratings (the anchor) and cbbpy
\* returned; args: <<predictions>>
CallMatch ==
    /\ call.fn = "idle"
    /\ \E base \in AnchorLists, games \in SeqsUpTo(SpelledRecords, MaxGames) :
          LET preds == [dratings |-> base, cbbpy |-> games]
          IN  call' = [fn |-> "match_games_across_sources", args |-> <<preds>>,
                       out |-> <<match_games_across_sources(preds)>>]
    /\ UNCHANGED pipeVars

CallNormalize ==
    /\ call.fn = "idle"
    /\ \E raw \in RawNames :
          call' = [fn |-> "normalize_team_names", args |-> <<raw>>,
                   out |-> <<normalize_team_names(raw)>>]
    /\ UNCHANGED pipeVars

CallConsensus ==
    /\ call.fn = "idle"
    /\ \E game \in MatchedGames :
          call' = [fn |-> "calculate_consensus_prediction", args |-> <<game>>,
                   out |-> <<calculate_consensus_prediction(game)>>]
    /\ UNCHANGED pipeVars

CallConfidence ==
    /\ call.fn = "idle"
    /\ \E consensus \in Consensuses, metric_type \in {"away_win_prob", "home_win_prob"} :
          call' = [fn |-> "calculate_confidence", args |-> <<consensus, metric_type>>,
                   out |-> <<calculate_confidence(consensus, metric_type)>>]
    /\ UNCHANGED pipeVars

\* find_edges over what get_multi_source_predictions returned
CallFindEdges ==
    /\ call.fn = "idle"
    /\ \E preds \in EdgePredictions, me \in MinEdges :
          call' = [fn |-> "find_edges", args |-> <<preds, me>>,
                   out |-> <<find_edges(preds, me).value>>]
    /\ UNCHANGED pipeVars

\* edges.sort(key=lambda x: (x['max_edge'], x['sources_count']), reverse=True)
CallSort ==
    /\ call.fn = "idle"
    /\ \E edges \in SeqsUpTo(RankedReports, MaxReports) :
          call' = [fn |-> "sort", args |-> <<edges>>, out |-> <<SortDesc(<<>>, edges)>>]
    /\ UNCHANGED pipeVars

CallIdentifyEdges ==
    /\ call.fn = "idle"
    /\ \E consensus \in GameConsensuses, me \in MinEdges :
          call' = [fn |-> "identify_game_edges", args |-> <<DukeAtUNC, consensus, me>>,
                   out |-> <<identify_game_edges(DukeAtUNC, consensus, me)>>]
    /\ UNCHANGED pipeVars

\* match_games_across_sources over a predictions dict of any sources
CallMatchSources ==
    /\ call.fn = "idle"
    /\ \E preds \in AnyPredictions :
          call' = [fn |-> "match_games_across_sources (any sources)",
                   args |-> <<preds>>,
                   out |-> <<match_games_across_sources(preds)>>]
    /\ UNCHANGED pipeVars

CalcNext ==
    \/ CallKelly \/ CallEdge \/ CallDRatingsEdge \/ CallRoundTrip
    \/ CallDRatingsFindEdges
    \/ CallMatch \/ CallNormalize \/ CallConsensus \/ CallConfidence
    \/ CallFindEdges \/ CallSort \/ CallIdentifyEdges
    \/ CallMatchSources

CalcSpec == Init /\ [][CalcNext]_vars

\* ------------------------------------------------ edge_finder.py main, scan
\* main calls find_edges, which resolves its sources argument
Main ==
    /\ pc = "main"
    /\ \E arg \in SourceArgs, me \in MinEdges :
          /\ sources' = IF arg = <<>> THEN <<"dratings", "cbbpy">>
                        ELSE IF \E i \in 1..Len(arg) : arg[i] = "all"
                             THEN available_sources
                             ELSE arg
          /\ min_edge' = me
    /\ stuck' \in SUBSET ({sources'[i] : i \in 1..Len(sources')} \cap ScriptSources)
    /\ pc' = "fetching"
    /\ UNCHANGED <<bt, call, fetched, predictions, result, output>>

InFlight == pc = "fetching" /\ Len(fetched) < Len(sources)
NextSource == sources[Len(fetched) + 1]

\* one turn of the loop of get_multi_source_predictions: a script is run
FetchScript ==
    /\ InFlight
    /\ NextSource \in ScriptSources
    /\ \E outcome \in subprocess_run(NextSource, stuck) :
          /\ fetched' = Append(fetched, outcome)
          /\ predictions' = (NextSource :> run_script(outcome)) @@ predictions
    /\ UNCHANGED <<bt, call, pc, sources, min_edge, result, output, stuck>>

\* one turn of the loop for a source that is not implemented
FetchUnimplemented ==
    /\ InFlight
    /\ NextSource \notin ScriptSources
    /\ fetched' = Append(fetched, [kind |-> "unimplemented", stdout |-> <<>>])
    /\ predictions' = (NextSource :> <<>>) @@ predictions
    /\ UNCHANGED <<bt, call, pc, sources, min_edge, result, output, stuck>>

\* the rest of find_edges, and main: it prints what find_edges returned, and
\* its own except Exception prints the error and exits 1
Return ==
    /\ pc = "fetching"
    /\ Len(fetched) = Len(sources)
    /\ result' = find_edges(predictions, min_edge)
    /\ output' = IF result'.raised
                 THEN [printed |-> FALSE, data |-> <<>>, exit |-> 1]
                 ELSE [printed |-> TRUE, data |-> result'.value, exit |-> 0]
    /\ pc' = "returned"
    /\ UNCHANGED <<bt, call, sources, min_edge, fetched, predictions, stuck>>

\* KeyboardInterrupt while subprocess.run waits: no except Exception clause
\* catches it, main prints "Operation cancelled" to stderr and exits 1
Cancel ==
    /\ InFlight
    /\ pc' = "cancelled"
    /\ output' = [printed |-> FALSE, data |-> <<>>, exit |-> 1]
    /\ UNCHANGED <<bt, call, sources, min_edge, fetched, predictions, result, stuck>>

Next == Main \/ FetchScript \/ FetchUnimplemented \/ Return \/ Cancel

Spec == Init /\ [][Next]_vars

\* a run that is not interrupted: main starts, subprocess.run ends (it has a
\* timeout), the loop of get_multi_source_predictions and the rest of
\* find_edges go on
ReturnEnabled == pc = "fetching" /\ Len(fetched) = Len(sources)
\* weak fairness of Return: ENABLED <<Return>>_vars is the guard of Return,
\* and a Return step leaves it (pc becomes "returned"), so WF_vars(Return)
\* says that Return is not enabled for ever
FairReturn == []<>~ReturnEnabled
LiveSpec ==
    Spec /\ WF_vars(Main) /\ WF_vars(FetchScript)
         /\ WF_vars(FetchUnimplemented) /\ FairReturn

\* -------------------------------------------------- edge_finder.py backtest
\* backtest up to its loop: the default of end_date, the two strptime calls
\* and the results dict; except Exception logs and returns {}
BacktestStart ==
    /\ bt.pc = "idle"
    /\ \E args \in BacktestArgs, now \in Window :
          LET end_date == IF args.end_given THEN args.end_date ELSE strftime(now)
              start == strptime(args.start_date)
              end == strptime(end_date)
          IN  bt' = IF start.raised \/ end.raised
                    THEN [bt EXCEPT !.pc = "failed",
                                    !.start_date = args.start_date,
                                    !.end_date = end_date,
                                    !.returned = "{}"]
                    ELSE [bt EXCEPT !.pc = "loop",
                                    !.start_date = args.start_date,
                                    !.end_date = end_date,
                                    !.current = start.value,
                                    !.end = end.value,
                                    !.results.period =
                                        args.start_date \o S_To \o end_date]
    /\ UNCHANGED <<call, pc, sources, min_edge, fetched, predictions, result,
                   output, stuck>>

DayEnabled == bt.pc = "loop" /\ DateLe(bt.current, bt.end)

\* one turn of the while loop: find_edges for the day with min_edge 2.0, the
\* daily result, the total, the next day
BacktestDay ==
    /\ DayEnabled
    /\ \E preds \in BacktestFetches :
          \E daily_edges \in {find_edges(preds, Num(2)).value} :
              LET date_str == strftime(bt.current)
                  daily_result == [date |-> date_str,
                                   edges_found |-> Len(daily_edges),
                                   max_edge |-> MaxOfMaxEdge(daily_edges)]
                  next == plus_one_day(bt.current)
              IN  bt' = IF next.raised
                        THEN [bt EXCEPT !.pc = "failed", !.returned = "{}",
                                        !.results.daily_results = Append(@, daily_result),
                                        !.results.total_edges_found = @ + Len(daily_edges)]
                        ELSE [bt EXCEPT !.current = next.value,
                                        !.results.daily_results = Append(@, daily_result),
                                        !.results.total_edges_found = @ + Len(daily_edges)]
    /\ UNCHANGED <<call, pc, sources, min_edge, fetched, predictions, result,
                   output, stuck>>

\* the loop test fails: return results
BacktestReturn ==
    /\ bt.pc = "loop"
    /\ ~DateLe(bt.current, bt.end)
    /\ bt' = [bt EXCEPT !.pc = "done", !.returned = "results"]
    /\ UNCHANGED <<call, pc, sources, min_edge, fetched, predictions, result,
                   output, stuck>>

\* KeyboardInterrupt while find_edges waits for a script: except Exception
\* does not catch it, backtest returns nothing
BacktestInterrupt ==
    /\ DayEnabled
    /\ bt' = [bt EXCEPT !.pc = "interrupted"]
    /\ UNCHANGED <<call, pc, sources, min_edge, fetched, predictions, result,
                   output, stuck>>

BacktestNext ==
    BacktestStart \/ BacktestDay \/ BacktestReturn \/ BacktestInterrupt

\* every find_edges call of the loop ends (subprocess.run has a timeout),
\* so a turn of the loop that has begun is completed unless it is
\* interrupted: weak fairness of BacktestDay, with its guard DayEnabled
\* written as a state predicate
FairDay == []<>~DayEnabled \/ []<><<BacktestDay>>_vars
BacktestSpec ==
    Init /\ [][BacktestNext]_vars /\ WF_vars(BacktestReturn) /\ FairDay

\* ------------------------------------------------------------------ claims
InUnit(p) == RLe(Num(0), p) /\ RLe(p, Num(1))
KellyCall == call.fn = "kelly_criterion"
KellyInDomain ==
    KellyCall /\ InUnit(call.args[1]) /\ InUnit(call.args[2])
              /\ RLe(Num(0), call.args[3])

\* C1: for model and market probabilities in [0,1] and a bankroll >= 0, the
\* stake returned by kelly_criterion is a number that is at most
\* bankroll * 0.05.
C1_KellyCapped ==
    KellyInDomain =>
        /\ IsNum(call.out[1])
        /\ RLe(call.out[1], RMul(call.args[3], Rat(5, 100)))

\* model 0.99 against market 0.5 on a bankroll of 1000: the Kelly stake is
\* 490 and the stake returned is the cap, 50 (against market 0.01 the Kelly
\* stake is 9.9, below the cap)
C1_Witness ==
    /\ KellyCall
    /\ call.args = <<Rat(99, 100), Rat(1, 2), Num(DefaultBankroll)>>
    /\ call.out[1] = Num(50)

\* C2: for probabilities in [0,1] and a bankroll >= 0, kelly_criterion
\* returns a number (no division fault), never a negative one, and exactly 0
\* whenever modelProb - marketProb <= 0.
C2_KellyNeverNegative ==
    KellyInDomain =>
        /\ IsNum(call.out[1])
        /\ RLe(Num(0), call.out[1])
        /\ (RLe(call.args[1], call.args[2]) => call.out[1] = Num(0))

\* marketProb = 1 (fair odds 0) with modelProb = 1: edge 0, stake 0
C2_Witness ==
    /\ KellyCall
    /\ call.args = <<Num(1), Num(1), Num(DefaultBankroll)>>
    /\ call.out[1] = Num(0)

\* C3: calculate_edge returns exactly 0 for every market probability <= 0
\* and every model probability, in edge_finder.py and in dratings.py.
C3_EdgeZeroForNonPositiveMarket ==
    (/\ call.fn \in {"calculate_edge", "DRatings.calculate_edge"}
     /\ RLe(call.args[2], Num(0)))
        => call.out[1] = Num(0)

OddsSameSign(a, b) == (a > 0 /\ b > 0) \/ (a < 0 /\ b < 0)
RoundTripCall == call.fn = "round_trip"
RoundTripOk ==
    /\ IsNum(call.out[1])
    /\ OddsSameSign(call.out[1][1], call.args[1][1])
    /\ Abs(call.out[1][1] - call.args[1][1]) <= 1

\* C4 as stated: for every non-zero integer odds o, the round trip
\* probability_to_odds(odds_to_probability(o)) has the sign of o and is
\* within 1 of o.
C4_RoundTripEveryNonZero ==
    (RoundTripCall /\ call.args[1][1] # 0) => RoundTripOk

\* C4 as amended: for every integer odds o >= 100 or o <= -101, the round
\* trip has the sign of o and is within 1 of o.
C4_RoundTripAmerican ==
    (RoundTripCall /\ (call.args[1][1] >= 100 \/ call.args[1][1] <= -101))
        => RoundTripOk

\* -150 -> 0.6 -> int(-149.99...) = -149 when the float falls short of -150
C4_Witness ==
    /\ RoundTripCall
    /\ call.args = <<Num(-150), Num(1)>>
    /\ call.out[1] = Num(-149)

\* ------------------------------------------------- claims about the pipeline
Returned == pc = "returned"
FailKinds == {"exit", "badjson", "timeout", "error"}
Fetched == 1..Len(fetched)
Failed == {sources[i] : i \in {j \in Fetched : fetched[j].kind \in FailKinds}}
Succeeded == {sources[i] : i \in {j \in Fetched : fetched[j].kind = "ok"}}
\* what the script of a source that succeeded printed
Delivered(s) == fetched[CHOOSE i \in Fetched : sources[i] = s].stdout
IsGameRecord(r) == HasKey(r, "away_team") /\ HasKey(r, "home_team")
GameRecordsOf(q) == {i \in 1..Len(q) : IsGameRecord(q[i])}
Matched == match_games_across_sources(predictions)
Reports == result.value
Label(g) == g.away_team \o S_At \o g.home_team
OddsKey(side) == IF side = "away" THEN "away_ml_odds" ELSE "home_ml_odds"

\* the moneyline odds of a side that one of the game's records carries
MarketLines(g, side) ==
    {rec.market_data[OddsKey(side)] :
        rec \in {g.predictions[s] : s \in {t \in DOMAIN g.predictions :
                    /\ HasKey(g.predictions[t], "market_data")
                    /\ HasKey(g.predictions[t].market_data, OddsKey(side))
                    /\ Truthy(g.predictions[t].market_data[OddsKey(side)])}}}

\* C5: every Edge that find_edges reports for a side of a game rests on a
\* market line obtained for that game and side: one of the game's records
\* carries moneyline odds for the side, and the Edge's market probability is
\* the probability those odds imply.
C5_EdgeOnlyFromObtainedMarketLine ==
    Returned =>
        \A i \in 1..Len(Reports) : \A k \in 1..Len(Reports[i].edges) :
            \E j \in 1..Len(Matched) :
                /\ Label(Matched[j]) = Reports[i].game
                /\ \E o \in MarketLines(Matched[j], Reports[i].edges[k].side) :
                      Reports[i].edges[k].market_prob = odds_to_probability(o[1])

DRFindEdgesCall == call.fn = "DRatings.find_edges"
DRModelProb(game, side) ==
    Get(game.predictions,
        IF side = "away" THEN "model_win_prob_away" ELSE "model_win_prob_home", None)
DROdds(game, side) == Get(game.market_data, OddsKey(side), None)
RECURSIVE CountSide(_, _)
CountSide(edges, side) ==
    IF edges = <<>> THEN 0
    ELSE (IF Head(edges).side = side THEN 1 ELSE 0) + CountSide(Tail(edges), side)
RECURSIVE CountEdges(_, _)
CountEdges(reports, side) ==
    IF reports = <<>> THEN 0
    ELSE CountSide(Head(reports).edges, side) + CountEdges(Tail(reports), side)

\* C6: in DRatingsAnalyzer.find_edges, for each moneyline side the Edge
\* records emitted are exactly one for each game whose model probability
\* (any number, 0 included) and market odds (non-zero) are both present and
\* whose absolute edge percentage is >= min_edge.
C6_EdgeIffAboveThreshold ==
    DRFindEdgesCall =>
        \A side \in {"away", "home"} :
            CountEdges(call.out[1], side) =
                Cardinality({i \in 1..Len(call.args[1]) :
                    LET game == call.args[1][i]
                    IN  /\ IsNum(DRModelProb(game, side))
                        /\ Truthy(DROdds(game, side))
                        /\ RLe(call.args[2],
                               RAbs(calculate_edge(
                                   DRModelProb(game, side),
                                   odds_to_probability(DROdds(game, side)[1]))))})

\* the run that only the sources that succeeded would have given
RemainingPredictions == [s \in Succeeded |-> Delivered(s)]
ExpectedAnchor ==
    LET ok == {i \in 1..Len(AnchorPriority) :
                  /\ AnchorPriority[i] \in Succeeded
                  /\ Delivered(AnchorPriority[i]) # <<>>}
    IN  AnchorPriority[CHOOSE i \in ok : \A j \in ok : i <= j]

\* C7: when a requested source failed and another returned game records,
\* find_edges matches one game per game record of the first remaining source
\* in priority order, returns what a run over the remaining sources alone
\* returns, and every report's sources_count is the number of sources
\* attached to its game, all of which succeeded.
C7_FailedSourceLeavesTheRest ==
    (/\ Returned
     /\ Failed # {}
     /\ \E s \in Succeeded : GameRecordsOf(Delivered(s)) # {})
        => /\ Len(Matched) = Cardinality(GameRecordsOf(Delivered(ExpectedAnchor)))
           /\ Reports = find_edges(RemainingPredictions, min_edge).value
           /\ \A j \in 1..Len(Matched) : DOMAIN Matched[j].predictions \subseteq Succeeded
           /\ \A i \in 1..Len(Reports) :
                 /\ Reports[i].sources_count <= Cardinality(Succeeded)
                 /\ \E j \in 1..Len(Matched) :
                       /\ Label(Matched[j]) = Reports[i].game
                       /\ Reports[i].sources_count =
                              Cardinality(DOMAIN Matched[j].predictions)

\* dratings, the first anchor, timed out; cbbpy's games are reported
C7_Witness ==
    /\ Returned
    /\ sources = <<"dratings", "cbbpy">>
    /\ fetched[1].kind = "timeout"
    /\ fetched[2].kind = "ok"
    /\ Len(Reports) = 1
    /\ Reports[1].sources_count = 1
    /\ Reports[1].game = Duke \o S_At \o NorthCarolina

\* C8: whichever sources failed (time-out, non-zero exit, unparseable
\* output, other error), find_edges returns a list that main prints, and a
\* failed source has no record in predictions, in any matched game or in
\* any report.
C8_FailuresContributeNothing ==
    Returned =>
        /\ ~result.raised
        /\ output = [printed |-> TRUE, data |-> Reports, exit |-> 0]
        /\ \A s \in Failed :
              /\ predictions[s] = <<>>
              /\ \A j \in 1..Len(Matched) : s \notin DOMAIN Matched[j].predictions
        /\ \A i \in 1..Len(Reports) :
              Reports[i].sources_count <= Cardinality(Succeeded)

\* dratings exited non-zero after printing a record; cbbpy's game is reported
C8_Witness ==
    /\ Returned
    /\ sources = <<"dratings", "cbbpy">>
    /\ fetched[1].kind = "exit"
    /\ fetched[2].kind = "ok"
    /\ Len(Reports) = 1
    /\ Reports[1].sources_count = 1

\* C9: a fault while one matched game is processed removes at most that
\* game: every other matched game (a game of another label whose records are
\* well formed) that has edges is in the returned list.
C9_FaultRemovesOnlyItsGame ==
    Returned =>
        \A j \in 1..Len(Matched) :
            (/\ ~ConsensusRaises(Matched[j])
             /\ \A k \in 1..Len(Matched) :
                   ConsensusRaises(Matched[k]) => Label(Matched[k]) # Label(Matched[j])
             /\ identify_game_edges(Matched[j],
                    calculate_consensus_prediction(Matched[j]), min_edge) # <<>>)
                => \E i \in 1..Len(Reports) : Reports[i].game = Label(Matched[j])

\* C10: when the run is cancelled while a fetch is in flight and the sources
\* that had already returned give edges, the result computed from them is
\* still produced.
C10_CancelKeepsPartialWork ==
    (pc = "cancelled" /\ find_edges(predictions, min_edge).value # <<>>)
        => /\ output.printed
           /\ output.data = find_edges(predictions, min_edge).value

\* C11: find_edges eventually returns (or the user interrupts the run) even
\* when any subset of the source scripts never responds: each fetch ends at
\* its timeout, the source then has no data, and the remaining sources are
\* still fetched and what find_edges made of them is printed.
C11_StuckSourcesDoNotBlock ==
    /\ <>(pc \in {"returned", "cancelled"})
    /\ [](Returned =>
            /\ Len(fetched) = Len(sources)
            /\ \A i \in Fetched :
                  sources[i] \in stuck =>
                      fetched[i].kind = "timeout" /\ predictions[sources[i]] = <<>>
            /\ output = [printed |-> TRUE, data |-> Reports, exit |-> 0])

\* dratings never responds; cbbpy was still fetched and its game is reported
C11_Witness ==
    /\ Returned
    /\ sources = <<"dratings", "cbbpy">>
    /\ stuck = {"dratings"}
    /\ fetched[1].kind = "timeout"
    /\ fetched[2].kind = "ok"
    /\ Len(Reports) = 1

\* ------------------------------------------------ claims about the matcher
UpperCase == <<"A", "B", "C", "D", "E", "F", "G", "H", "I", "J", "K", "L", "M",
               "N", "O", "P", "Q", "R", "S", "T", "U", "V", "W", "X", "Y", "Z">>
LowerCase == <<"a", "b", "c", "d", "e", "f", "g", "h", "i", "j", "k", "l", "m",
               "n", "o", "p", "q", "r", "s", "t", "u", "v", "w", "x", "y", "z">>
LowerChar(c) ==
    IF \E i \in 1..26 : UpperCase[i] = c
    THEN LowerCase[CHOOSE i \in 1..26 : UpperCase[i] = c]
    ELSE c
Lower(s) == [i \in 1..Len(s) |-> LowerChar(s[i])]

\* the team a raw name denotes, whatever its case: the name trimmed and
\* lower-cased, the filler substrings removed, an alias replaced by the name
\* it stands for
TeamId(raw) ==
    LET n0 == Lower(Strip(raw))
        n1 == Replace(n0, Lower(S_UniversityOf), <<>>)
        n2 == Replace(n1, Lower(S_University), <<>>)
        n3 == Replace(n2, Lower(S_College), <<>>)
        keys == {k \in DOMAIN name_mapping : Lower(k) = n3}
    IN  IF keys = {} THEN n3
        ELSE Lower(name_mapping[CHOOSE k \in keys : TRUE])
SameTeams(r, g) ==
    TeamId(r.away_team) = TeamId(g.away_team) /\ TeamId(r.home_team) = TeamId(g.home_team)

MatchCall == call.fn = "match_games_across_sources"
\* the matched games made for the anchor's game g
MatchedFor(g) ==
    {j \in 1..Len(call.out[1]) :
        /\ call.out[1][j].away_team = normalize_team_names(g.away_team)
        /\ call.out[1][j].home_team = normalize_team_names(g.home_team)}

\* C12: when the anchor lists a game and the second source lists the same
\* game (same date, the same two teams up to case and alias),
\* match_games_across_sources returns exactly one matched game for it, and
\* that game's predictions contain both sources.
C12_SpellingsCollapse ==
    MatchCall =>
        \A i \in 1..Len(call.args[1].dratings) :
            LET g == call.args[1].dratings[i]
            IN  (\E k \in 1..Len(call.args[1].cbbpy) :
                    /\ call.args[1].cbbpy[k].date = g.date
                    /\ SameTeams(call.args[1].cbbpy[k], g))
                => /\ Cardinality(MatchedFor(g)) = 1
                   /\ \A j \in MatchedFor(g) :
                         DOMAIN call.out[1][j].predictions = {"dratings", "cbbpy"}

\* C13: a record of a non-anchor source is attached to a matched game only
\* if its date is the matched game's date and its canonical (away, home)
\* pair is the matched game's.
C13_AttachedOnlyOnSameDate ==
    MatchCall =>
        \A j \in 1..Len(call.out[1]) :
            LET m == call.out[1][j]
            IN  \A src \in DOMAIN m.predictions :
                    /\ m.predictions[src].date = m.date
                    /\ normalize_team_names(m.predictions[src].away_team) = m.away_team
                    /\ normalize_team_names(m.predictions[src].home_team) = m.home_team

\* ----------------------------------------------- claims about the resolver
NormalizeCall == call.fn = "normalize_team_names"
\* the name trimmed, with the three filler substrings removed
WithoutFillers(raw) ==
    Replace(Replace(Replace(Strip(raw), S_UniversityOf, <<>>), S_University, <<>>),
            S_College, <<>>)

\* C14: for a raw name with no alias-table entry, normalize_team_names
\* returns the input trimmed and with only the substrings "University of ",
\* " University" and "College" removed; nothing else is rewritten.
C14_OnlyFillersRemoved ==
    (NormalizeCall /\ WithoutFillers(call.args[1]) \notin DOMAIN name_mapping)
        => call.out[1] = WithoutFillers(call.args[1])

\* C15: for every alias-table entry k -> v, normalize_team_names(k) equals
\* normalize_team_names(v).
C15_AliasAndNameAgree ==
    (NormalizeCall /\ call.args[1] \in DOMAIN name_mapping)
        => call.out[1] = normalize_team_names(name_mapping[call.args[1]])

\* --------------------------------------------- claims about the aggregator
ConsensusCall == call.fn = "calculate_consensus_prediction"
\* the sources of the game whose record carries a value (any number, not
\* null) for the metric
Supplying(game, key) ==
    {s \in DOMAIN game.predictions :
        /\ HasKey(game.predictions[s], "predictions")
        /\ HasKey(game.predictions[s].predictions, MetricKey[key])
        /\ IsNum(game.predictions[s].predictions[MetricKey[key]])}
Supplied(game, key) ==
    [s \in Supplying(game, key) |-> game.predictions[s].predictions[MetricKey[key]]]

\* C16: for each of the four metrics that some source supplies, the
\* consensus count is the number of the game's sources whose record carries
\* a non-absent value for it (0 included), and the mean is the mean of
\* exactly those values.
C16_CountsEveryPresentValue ==
    ConsensusCall =>
        \A key \in DOMAIN MetricKey :
            LET S == Supplying(call.args[1], key)
            IN  S # {} =>
                    /\ HasKey(call.out[1], key)
                    /\ call.out[1][key].count = Cardinality(S)
                    /\ call.out[1][key].avg = Mean(S, Supplied(call.args[1], key))

\* C17: a metric for which no source of the matched game supplies a value
\* has no entry in the result of calculate_consensus_prediction, and every
\* entry of the result has a count >= 1.
C17_NoEntryWithoutSamples ==
    ConsensusCall =>
        \A key \in DOMAIN MetricKey :
            /\ Supplying(call.args[1], key) = {} => ~HasKey(call.out[1], key)
            /\ HasKey(call.out[1], key) => call.out[1][key].count >= 1

\* two sources give win probabilities and neither a spread or a total: the
\* result has entries for the probabilities only
C17_Witness ==
    /\ ConsensusCall
    /\ DOMAIN call.args[1].predictions = {"dratings", "cbbpy"}
    /\ \A s \in {"dratings", "cbbpy"} :
          /\ HasKey(call.args[1].predictions[s], "predictions")
          /\ call.args[1].predictions[s].predictions
                = Preds(Rat(3, 5), Rat(2, 5), None, None)
    /\ DOMAIN call.out[1] = {"away_win_prob", "home_win_prob"}
    /\ call.out[1].away_win_prob.count = 2

\* ------------------------------------------ claims about the confidence score
ConfidenceCall == call.fn = "calculate_confidence"
\* (min(n/3, 1) * 0.6 + max(0, 1 - 4*s) * 0.4) * 100, term by term
SourceTerm(n) == IF n >= 3 THEN Num(60) ELSE Rat(60 * n, 3)
AgreementTerm(s) ==
    IF RLe(Rat(1, 4), s) THEN Num(0)
    ELSE RSub(Num(40), RMul(Num(160), s))

\* C18: for a consensus entry with count n >= 1 and standard deviation
\* s >= 0, calculate_confidence returns
\* (min(n/3, 1) * 0.6 + max(0, 1 - 4*s) * 0.4) * 100, a value in [0,100];
\* for n = 2 and s = 0 it is 80.
C18_ConfidenceFormula ==
    (/\ ConfidenceCall
     /\ HasKey(call.args[1], call.args[2])
     /\ call.args[1][call.args[2]].count >= 1)
        => LET n == call.args[1][call.args[2]].count
               s == call.args[1][call.args[2]].std
           IN  /\ call.out[1] = RAdd(SourceTerm(n), AgreementTerm(s))
               /\ RLe(Num(0), call.out[1]) /\ RLe(call.out[1], Num(100))
               /\ (n = 2 /\ s = Num(0)) => call.out[1] = Num(80)

\* two sources that agree exactly: confidence 80
C18_Witness ==
    /\ ConfidenceCall
    /\ call.args[2] = "away_win_prob"
    /\ HasKey(call.args[1], "away_win_prob")
    /\ call.args[1].away_win_prob.count = 2
    /\ call.args[1].away_win_prob.std = Num(0)
    /\ call.out[1] = Num(80)

\* ------------------------------------------------- claims about the ranker
FindEdgesCall == call.fn = "find_edges"
SortCall == call.fn = "sort"
\* v is the greatest absolute edge percentage of the edges
IsMaxAbsEdge(v, edges) ==
    /\ \A k \in 1..Len(edges) : RLe(RAbs(edges[k].edge_percent), v)
    /\ \E k \in 1..Len(edges) : v = RAbs(edges[k].edge_percent)

\* C19: the max_edge of every report returned by find_edges (of
\* edge_finder.py and of dratings.py) is the greatest absolute value of the
\* edge percentages of the report's edges, also when all of them are
\* negative, and the list is in descending order of that value.
C19_MaxEdgeIsMaxAbs ==
    (FindEdgesCall \/ DRFindEdgesCall) =>
        /\ \A i \in 1..Len(call.out[1]) :
              IsMaxAbsEdge(call.out[1][i].max_edge, call.out[1][i].edges)
        /\ \A i \in 1..Len(call.out[1]), j \in 1..Len(call.out[1]) :
              i < j => RLe(call.out[1][j].max_edge, call.out[1][i].max_edge)

\* a comes before b, or ties with it, in the order (max_edge descending,
\* then sources_count descending)
RankedBefore(a, b) ==
    \/ RLt(b.max_edge, a.max_edge)
    \/ a.max_edge = b.max_edge /\ a.sources_count >= b.sources_count
Ranked(reports) ==
    \A i \in 1..Len(reports), j \in 1..Len(reports) :
        i < j => RankedBefore(reports[i], reports[j])
Occurrences(reports, r) == Cardinality({i \in 1..Len(reports) : reports[i] = r})

\* C20: the list find_edges returns is ordered by max_edge descending and,
\* among reports with equal max_edge, by sources_count descending; the sort
\* keeps every report: (4,5), (9,2), (9,4) come out as (9,4), (9,2), (4,5).
C20_RankedByEdgeThenSources ==
    /\ FindEdgesCall => Ranked(call.out[1])
    /\ SortCall =>
          /\ Ranked(call.out[1])
          /\ Len(call.out[1]) = Len(call.args[1])
          /\ \A r \in RankedReports :
                Occurrences(call.out[1], r) = Occurrences(call.args[1], r)

C20_Witness ==
    /\ SortCall
    /\ call.args[1] = <<[max_edge |-> Num(4), sources_count |-> 5],
                        [max_edge |-> Num(9), sources_count |-> 2],
                        [max_edge |-> Num(9), sources_count |-> 4]>>
    /\ call.out[1] = <<[max_edge |-> Num(9), sources_count |-> 4],
                       [max_edge |-> Num(9), sources_count |-> 2],
                       [max_edge |-> Num(4), sources_count |-> 5]>>

\* the reports of the list whose sort key is that of r, in list order
SameKey(reports, r) ==
    LET Test(x) == x.max_edge = r.max_edge /\ x.sources_count = r.sources_count
    IN  SelectSeq(reports, Test)
\* the reports in the order in which their games were matched
Unsorted == EdgeGames(match_games_across_sources(call.args[1]), call.args[2])

\* C21: the ranking is stable: the reports of equal max_edge and equal
\* sources_count come out in the order in which their games were matched
\* (the order of the anchor's records).
C21_StableRanking ==
    FindEdgesCall =>
        \A i \in 1..Len(call.out[1]) :
            SameKey(call.out[1], call.out[1][i]) = SameKey(Unsorted, call.out[1][i])

\* the anchor lists UCLA @ UConn before Duke @ UNC with the same
\* probabilities: equal keys, and the reports come out in that order
C21_Witness ==
    /\ FindEdgesCall
    /\ Len(call.args[1].dratings) = 2
    /\ call.args[1].dratings[1].away_team = UCLA
    /\ call.args[1].dratings[2].away_team = Duke
    /\ Len(call.out[1]) = 2
    /\ call.out[1][1].max_edge = call.out[1][2].max_edge
    /\ call.out[1][1].sources_count = call.out[1][2].sources_count
    /\ call.out[1][1].game = UCLA \o S_At \o Connecticut
    /\ call.out[1][2].game = Duke \o S_At \o NorthCarolina

\* ------------------------------------------- claims about the emitted edges
IdentifyCall == call.fn = "identify_game_edges"
\* the Edge records of a list of reports, report after report
RECURSIVE EdgesOf(_)
EdgesOf(reports) ==
    IF reports = <<>> THEN <<>> ELSE Head(reports).edges \o EdgesOf(Tail(reports))
\* the Edge records the last call emitted
Emitted ==
    IF IdentifyCall THEN call.out[1]
    ELSE IF FindEdgesCall \/ DRFindEdgesCall THEN EdgesOf(call.out[1])
    ELSE <<>>

\* C22: in every Edge emitted (by identify_game_edges, and by find_edges of
\* edge_finder.py and of dratings.py), the recommendation is positive if and
\* only if the edge percentage is strictly positive.
C22_RecommendedIffPositive ==
    \A k \in 1..Len(Emitted) :
        IF DRFindEdgesCall
        THEN /\ Emitted[k].recommended_bet \in {"YES", "NO"}
             /\ Emitted[k].recommended_bet = "YES" <=> RLt(Num(0), Emitted[k].edge_percent)
        ELSE /\ Emitted[k].recommended \in BOOLEAN
             /\ Emitted[k].recommended <=> RLt(Num(0), Emitted[k].edge_percent)

\* min_edge 0 and a consensus equal to what the market implies on the away
\* side (10/21) and below it on the home side: an edge of exactly 0 and a
\* negative edge are emitted, and neither is recommended
C22_Witness ==
    /\ IdentifyCall
    /\ call.args[3] = Num(0)
    /\ Len(call.out[1]) = 2
    /\ call.out[1][1].edge_percent = Num(0)
    /\ ~call.out[1][1].recommended
    /\ RLt(call.out[1][2].edge_percent, Num(0))
    /\ ~call.out[1][2].recommended

\* C28: in every Edge emitted by identify_game_edges with a model
\* probability in (0,1], kelly_bet_amount is strictly positive if and only
\* if recommended is true, and an Edge that is not recommended carries a
\* stake of exactly 0.
C28_StakeIffRecommended ==
    (IdentifyCall \/ FindEdgesCall) =>
        \A k \in 1..Len(Emitted) :
            (RLt(Num(0), Emitted[k].model_prob) /\ RLe(Emitted[k].model_prob, Num(1)))
                => /\ IsNum(Emitted[k].kelly_bet_amount)
                   /\ RLt(Num(0), Emitted[k].kelly_bet_amount) <=> Emitted[k].recommended
                   /\ ~Emitted[k].recommended => Emitted[k].kelly_bet_amount = Num(0)

\* away 12/21 against 10/21: recommended with the capped stake 50; home
\* 9/21 against 11/21: not recommended, stake 0
C28_Witness ==
    /\ IdentifyCall
    /\ Len(call.out[1]) = 2
    /\ call.out[1][1].model_prob = Rat(12, 21)
    /\ call.out[1][1].recommended
    /\ call.out[1][1].kelly_bet_amount = Num(50)
    /\ call.out[1][2].model_prob = Rat(9, 21)
    /\ ~call.out[1][2].recommended
    /\ call.out[1][2].kelly_bet_amount = Num(0)

\* ------------------------------------------- claims about the matched set
AnyMatchCall ==
    call.fn \in {"match_games_across_sources",
                 "match_games_across_sources (any sources)"}
\* the sources supplied with at least one record
WithRecords(preds) == {src \in DOMAIN preds : preds[src] # <<>>}
\* a is at or before every source with records of the priority order
FirstInPriority(a, preds) ==
    \A i \in 1..Len(AnchorPriority) :
        AnchorPriority[i] \in WithRecords(preds)
            => \E j \in 1..i : AnchorPriority[j] = a
\* the matched games are seeded by the records of source a, one by one
SeededBy(a, preds, matched) ==
    /\ Len(matched) = Len(preds[a])
    /\ \A i \in 1..Len(matched) :
          /\ a \in DOMAIN matched[i].predictions
          /\ matched[i].predictions[a] = preds[a][i]

\* C23: whenever some supplied source has at least one record, an anchor is
\* chosen, it is the first source with records in the priority order, and
\* its games seed the matched set.
C23_AnchorChosen ==
    (AnyMatchCall /\ WithRecords(call.args[1]) # {}) =>
        \E a \in WithRecords(call.args[1]) :
            /\ FirstInPriority(a, call.args[1])
            /\ SeededBy(a, call.args[1], call.out[1])

PairOf(r) == <<normalize_team_names(r.away_team), normalize_team_names(r.home_team)>>
\* the records of the first source of the priority order that has records
AnchorRecords(preds) ==
    LET ok == {i \in 1..Len(AnchorPriority) : AnchorPriority[i] \in WithRecords(preds)}
    IN  IF ok = {} THEN <<>>
        ELSE preds[AnchorPriority[CHOOSE i \in ok : \A j \in ok : i <= j]]

\* C24: the matched games are never more than the anchor's records, and
\* the team pair of every matched game is that of an anchor record: a
\* record of another source that equals no anchor game makes no game.
C24_OnlyAnchorGames ==
    AnyMatchCall =>
        /\ Len(call.out[1]) <= Len(AnchorRecords(call.args[1]))
        /\ \A j \in 1..Len(call.out[1]) :
              \E i \in 1..Len(AnchorRecords(call.args[1])) :
                  <<call.out[1][j].away_team, call.out[1][j].home_team>>
                      = PairOf(AnchorRecords(call.args[1])[i])

\* the anchor lists Duke @ UNC, cbbpy lists UCLA @ UConn only: one matched
\* game, with the anchor's record alone
C24_Witness ==
    /\ MatchCall
    /\ call.args[1].dratings = <<Spelled(Date1, Duke, UNC)>>
    /\ call.args[1].cbbpy = <<Spelled(Date1, UCLA, UConn)>>
    /\ Len(call.out[1]) = 1
    /\ call.out[1][1].away_team = Duke
    /\ DOMAIN call.out[1][1].predictions = {"dratings"}

\* C26: no two matched games returned share the key (canonical away,
\* canonical home, date).
C26_OneGamePerKey ==
    AnyMatchCall =>
        \A i \in 1..Len(call.out[1]), j \in 1..Len(call.out[1]) :
            i < j =>
                <<call.out[1][i].away_team, call.out[1][i].home_team, call.out[1][i].date>>
                    # <<call.out[1][j].away_team, call.out[1][j].home_team, call.out[1][j].date>>

\* the games of the call whose odds on the side are 0
ZeroOdds(side) ==
    {i \in 1..Len(call.args[1]) : DROdds(call.args[1][i], side) = Num(0)}

\* C25: in DRatingsAnalyzer.find_edges a side whose odds are 0 is skipped
\* for every min_edge: every Edge emitted has a market probability > 0 and
\* a number as its edge percentage, and a call whose games all have odds 0
\* on a side emits no Edge for that side.
C25_ZeroOddsSkipped ==
    DRFindEdgesCall =>
        /\ \A k \in 1..Len(Emitted) :
              /\ RLt(Num(0), Emitted[k].market_prob)
              /\ IsNum(Emitted[k].edge_percent)
        /\ \A side \in {"away", "home"} :
              ZeroOdds(side) = 1..Len(call.args[1]) => CountEdges(call.out[1], side) = 0

\* away odds 0 with a model probability of 0.60, min_edge 0: the home side
\* alone gives an Edge
C25_Witness ==
    /\ DRFindEdgesCall
    /\ call.args[2] = Num(0)
    /\ Len(call.args[1]) = 1
    /\ call.args[1][1].market_data = Market(Num(0), Num(-110))
    /\ call.args[1][1].predictions = Preds(Rat(3, 5), Rat(11, 20), None, None)
    /\ Len(call.out[1]) = 1
    /\ Len(call.out[1][1].edges) = 1
    /\ call.out[1][1].edges[1].side = "home"

\* C27: normalize_team_names is idempotent: resolving the identity it
\* returned gives that identity again.
C27_NormalizeIdempotent ==
    NormalizeCall => normalize_team_names(call.out[1]) = call.out[1]

\* C29: in every report find_edges returns, sources_count is at least 1
\* and at most the number of sources asked for, and no metric of the
\* report's consensus has more samples than sources_count.
C29_SourceCounts ==
    Returned =>
        \A i \in 1..Len(Reports) :
            /\ 1 <= Reports[i].sources_count
            /\ Reports[i].sources_count <= Len(sources)
            /\ \A key \in DOMAIN Reports[i].consensus :
                  Reports[i].consensus[key].count <= Reports[i].sources_count

\* a report of two sources, one metric with both samples and one metric
\* with the sample of one source only
C29_Witness ==
    /\ Returned
    /\ \E i \in 1..Len(Reports) :
          /\ Reports[i].sources_count = 2
          /\ \E key \in DOMAIN Reports[i].consensus :
                Reports[i].consensus[key].count = 2
          /\ \E key \in DOMAIN Reports[i].consensus :
                Reports[i].consensus[key].count = 1

\* the number of the day in its year, by the closed formula
DayOfYear(date) ==
    (275 * date[2]) \div 9
        - (IF IsLeap(date[1]) THEN 1 ELSE 2) * ((date[2] + 9) \div 12)
        + date[3] - 30
Daily == bt.results.daily_results
RECURSIVE SumEdgesFound(_)
SumEdgesFound(daily) ==
    IF daily = <<>> THEN 0 ELSE Head(daily).edges_found + SumEdgesFound(Tail(daily))
\* the number of dates from start_date through end_date, 0 for start > end
SpanDays ==
    LET first == DayOfYear(strptime(bt.start_date).value)
        last == DayOfYear(strptime(bt.end_date).value)
    IN  IF first <= last THEN last - first + 1 ELSE 0
BacktestDone == bt.pc = "done"

\* C30: when backtest returns its results, daily_results holds one entry per
\* calendar date from start through end in ascending order (none when
\* start > end), total_edges_found is the sum of edges_found over the
\* entries, and the day loop always ends.
C30_BacktestDays ==
    /\ [](BacktestDone =>
            /\ bt.returned = "results"
            /\ Len(Daily) = SpanDays
            /\ \A i \in 1..Len(Daily) :
                  /\ ~strptime(Daily[i].date).raised
                  /\ strftime(strptime(Daily[i].date).value) = Daily[i].date
                  /\ DayOfYear(strptime(Daily[i].date).value)
                        = DayOfYear(strptime(bt.start_date).value) + i - 1
            /\ bt.results.total_edges_found = SumEdgesFound(Daily)
            /\ (SpanDays = 0 => Daily = <<>> /\ bt.results.total_edges_found = 0))
    /\ ((bt.pc = "loop") ~> (bt.pc # "loop"))

\* a backtest over the four days 27 February to 1 March that found edges on
\* some days and none on another
C30_Witness ==
    /\ BacktestDone
    /\ Len(Daily) = 4
    /\ Daily[3].date = strftime(<<2028, 2, 29>>)
    /\ Daily[4].date = strftime(<<2028, 3, 1>>)
    /\ Daily[1].edges_found = 0
    /\ bt.results.total_edges_found = 3

====
